---- MODULE Spec2Model ----
(***************************************************************************)
(* A model of pcf.py: the diff-notation parser (format_diff), the          *)
(* haplotype normaliser (get_formatted_haplotypes), the row aggregation    *)
(* (build_items / handle_samples), the back-filling of genotypes           *)
(* (append_samples_to_items) and the conversion loop                       *)
(* (convert_json_to_pcf / generate_vcf_rows / build_vcf_file).             *)
(*                                                                         *)
(* A Python str is a sequence of one-character strings.  A Python list is  *)
(* a sequence; a dict whose order matters (vcf_rows) is a sequence of      *)
(* [key, item] entries in insertion order, a dict whose order does not     *)
(* matter (samples) is a function.  A call that can raise returns a record *)
(* [kind |-> "raise", exc |-> ...] instead of a value.                     *)
(***************************************************************************)
EXTENDS Integers, Sequences, FiniteSets, TLC

VARIABLES
    \* ---- format_diff, applied to one notation
    diff,              \* the argument diff: [isNone, str]
    ref_sequence,      \* the argument ref_sequence
    formatted_diff,    \* the outcome of format_diff(diff, ref_sequence), or pending
    \* ---- build_items followed by append_samples_to_items
    bpc,               \* "idle" | "fold" | "built" | "final"
    haplotype,         \* the haplotype of the outer loop (line 186), or NoHaplotype
    vcf_rows,          \* the dict vcf_rows, in insertion order
    sample_ids,        \* the set get_formatted_haplotypes collects (line 117)
    items,             \* the list build_items returned, then the finalized rows
    folded,            \* history: the (haplotype, diff) pairs folded so far
    last_call,         \* history: the last call of handle_samples, objects included
    \* ---- convert_json_to_pcf
    cpc,               \* "idle" | "reading" | "done" | "failed"
    vcf_headers,       \* the local vcf_headers
    file,              \* the rows written to the output file, in order
    first_ids,         \* history: the sample ids of the first processed line
    lines_read         \* history: number of lines processed to the end

vars == <<diff, ref_sequence, formatted_diff,
          bpc, haplotype, vcf_rows, sample_ids, items, folded, last_call,
          cpc, vcf_headers, file, first_ids, lines_read>>

parseVars   == <<diff, ref_sequence, formatted_diff>>
buildVars   == <<bpc, haplotype, vcf_rows, sample_ids, items, folded, last_call>>
convertVars == <<cpc, vcf_headers, file, first_ids, lines_read>>

(***************************************************************************)
(* Bounds.                                                                 *)
(***************************************************************************)
MaxTokens == 5      \* a generated notation is at most this many tokens long
MaxFold   == 3      \* build_items folds at most this many diffs
MaxLines  == 3      \* the input file has at most this many lines

(***************************************************************************)
(* Strings.                                                                *)
(***************************************************************************)
Range(s) == {s[i] : i \in 1..Len(s)}

Digits == {"0", "1", "2", "3", "4", "5", "6", "7", "8", "9"}

DigitVal(c) ==
    CASE c = "0" -> 0 [] c = "1" -> 1 [] c = "2" -> 2 [] c = "3" -> 3
      [] c = "4" -> 4 [] c = "5" -> 5 [] c = "6" -> 6 [] c = "7" -> 7
      [] c = "8" -> 8 [] c = "9" -> 9

DigitChar(d) == <<"0", "1", "2", "3", "4", "5", "6", "7", "8", "9">>[d + 1]

\* whether int(s) returns rather than raising ValueError (no string of the
\* model holds a sign, white space or an underscore, which int also accepts)
IsDigits(s) == Len(s) > 0 /\ \A i \in 1..Len(s) : s[i] \in Digits

\* int(s) for a string of decimal digits
RECURSIVE ParseInt(_)
ParseInt(s) ==
    IF Len(s) = 0 THEN 0
    ELSE 10 * ParseInt(SubSeq(s, 1, Len(s) - 1)) + DigitVal(s[Len(s)])

\* str(n), as the f-string formats a non-negative int
RECURSIVE IntToStr(_)
IntToStr(n) ==
    IF n < 10 THEN <<DigitChar(n)>>
    ELSE IntToStr(n \div 10) \o <<DigitChar(n % 10)>>

\* sub in s
Contains(s, sub) ==
    \E i \in 1..(Len(s) - Len(sub) + 1) : SubSeq(s, i, i + Len(sub) - 1) = sub

\* s.find(sub) + 1, where sub occurs in s
FirstIndex(s, sub) ==
    CHOOSE i \in 1..(Len(s) - Len(sub) + 1) :
        /\ SubSeq(s, i, i + Len(sub) - 1) = sub
        /\ \A j \in 1..(i - 1) : SubSeq(s, j, j + Len(sub) - 1) # sub

\* s.split(sep): the list of the parts between the occurrences of sep
RECURSIVE Split(_, _)
Split(s, sep) ==
    IF ~Contains(s, sep) THEN <<s>>
    ELSE LET i == FirstIndex(s, sep)
         IN  <<SubSeq(s, 1, i - 1)>> \o Split(SubSeq(s, i + Len(sep), Len(s)), sep)

\* s.strip(c): s without its leading and its trailing run of the character c
RECURSIVE LStrip(_, _)
LStrip(s, c) ==
    IF Len(s) > 0 /\ s[1] = c THEN LStrip(Tail(s), c) ELSE s

RECURSIVE RStrip(_, _)
RStrip(s, c) ==
    IF Len(s) > 0 /\ s[Len(s)] = c THEN RStrip(SubSeq(s, 1, Len(s) - 1), c) ELSE s

Strip(s, c) == RStrip(LStrip(s, c), c)

\* sep.join(parts), for a list of strings
RECURSIVE Join(_, _)
Join(parts, sep) ==
    IF Len(parts) = 0 THEN <<>>
    ELSE IF Len(parts) = 1 THEN parts[1]
    ELSE parts[1] \o sep \o Join(Tail(parts), sep)

(***************************************************************************)
(* Module constants of pcf.py.                                             *)
(***************************************************************************)
INSERT_OPERATOR == <<">">>
DEL_OPERATOR    == <<"d", "e", "l">>
DEL_STRING      == <<"<", "D", "E", "L", ">">>
ALT_SEPARATOR    == <<",">>
SAMPLE_SEPARATOR == <<"|">>

\* the two f-string literals of format_diff
InfoEndPrefix  == <<"S","V","T","Y","P","E","=","D","E","L",";","E","N","D","=">>
InfoSvidPrefix == <<"S","V","T","Y","P","E","=","D","E","L",";"," ","S","V","I","D","=">>

\* HEADER_TO_KEY_MAP, in the order of its keys
HEADER_TO_KEY_MAP ==
    << [header |-> "GENE", key |-> "gene"],
       [header |-> "ID",   key |-> "gene_id"],
       [header |-> "PROT", key |-> "prot"],
       [header |-> "POS",  key |-> "pos"],
       [header |-> "REF",  key |-> "ref"],
       [header |-> "ALT",  key |-> "alt"],
       [header |-> "INFO", key |-> "info"] >>

(***************************************************************************)
(* Values and outcomes.                                                    *)
(***************************************************************************)
PyNone    == [kind |-> "None"]
Raise(e)  == [kind |-> "raise", exc |-> e]
Pending   == [kind |-> "pending"]

NoneStr   == [isNone |-> TRUE,  str |-> <<>>]
Str(s)    == [isNone |-> FALSE, str |-> s]

\* Diff(pos=..., ref=..., alt=..., info=...)
Diff(pos, ref, alt, info) ==
    [kind |-> "Diff", pos |-> pos, ref |-> ref, alt |-> alt, info |-> info]

(***************************************************************************)
(* re.match(LETTER_REGEX, diff): LETTER_REGEX is a start anchor, a group   *)
(* of one or more digits, and a group of any characters.  Group 1 is the   *)
(* longest leading run of digits, group 2 the rest of the string (no       *)
(* notation of the model holds a newline, where group 2 would stop).       *)
(***************************************************************************)
LeadingDigits(s) ==
    CHOOSE n \in 0..Len(s) :
        /\ \A i \in 1..n : s[i] \in Digits
        /\ (n < Len(s) => s[n + 1] \notin Digits)

\* deletion_part.strip('{').strip('}')
StripBraces(s) == Strip(Strip(s, "{"), "}")

\* the body of "if DEL_OPERATOR in remaining_part" (lines 154-167)
DelBranch(pos, remaining_part, refseq) ==
    LET parts == Split(remaining_part, DEL_OPERATOR)
    IN  IF Len(parts) # 2 THEN Raise("ValueError")              \* the unpacking
        ELSE IF ParseInt(pos) >= Len(refseq) THEN Raise("IndexError")
        ELSE
          LET ref   == <<refseq[ParseInt(pos) + 1]>>
              range == StripBraces(parts[2])
              info  == IF IsDigits(range)
                       THEN InfoEndPrefix \o IntToStr(ParseInt(pos) + ParseInt(range))
                       ELSE InfoSvidPrefix \o pos \o DEL_OPERATOR \o range
          IN  Diff(pos, ref, DEL_STRING, info)

\* the body of "if INSERT_OPERATOR in remaining_part" (lines 150-151)
InsertBranch(pos, remaining_part) ==
    LET parts == Split(remaining_part, INSERT_OPERATOR)
    IN  IF Len(parts) # 2 THEN Raise("ValueError")              \* the unpacking
        ELSE Diff(pos, parts[1], parts[2], <<>>)

format_diff(d, refseq) ==
    IF d.isNone \/ d.str = <<>> THEN PyNone
    ELSE
      LET n == LeadingDigits(d.str)
      IN  IF n = 0 THEN PyNone
          ELSE
            LET pos            == SubSeq(d.str, 1, n)
                remaining_part == SubSeq(d.str, n + 1, Len(d.str))
            IN  IF Contains(remaining_part, INSERT_OPERATOR)
                  THEN InsertBranch(pos, remaining_part)
                ELSE IF Contains(remaining_part, DEL_OPERATOR)
                  THEN DelBranch(pos, remaining_part, refseq)
                ELSE PyNone

(***************************************************************************)
(* Inputs of format_diff: every concatenation of at most MaxTokens tokens, *)
(* the three notations the documentation gives as examples, and null.      *)
(***************************************************************************)
Tokens == { <<"1">>, <<"K">>, <<">">>, DEL_OPERATOR, <<"{">>, <<"}">> }

RECURSIVE Concat(_)
Concat(ts) == IF Len(ts) = 0 THEN <<>> ELSE ts[1] \o Concat(Tail(ts))

TokenNotations ==
    { Concat(ts) : ts \in UNION { [1..n -> Tokens] : n \in 0..MaxTokens } }

Example10AT   == <<"1", "0", "A", ">", "T">>
Example5del3  == <<"5", "d", "e", "l", "{", "3", "}">>
Example5delins == <<"5", "d", "e", "l", "{", "i", "n", "s", "}">>

Notations ==
    {NoneStr} \cup
    { Str(s) : s \in TokenNotations \cup {Example10AT, Example5del3, Example5delins} }

RefSeqs == { <<>>, <<"M", "K">>, <<"M", "K", "T", "A", "Y", "G">> }

(***************************************************************************)
(* build_items: the fold of one diff of one haplotype into vcf_rows.       *)
(***************************************************************************)
SampleOrder == <<"s1", "s2", "s3">>    \* the sample ids of the model
SampleIds   == Range(SampleOrder)
Rank(s)     == CHOOSE i \in 1..Len(SampleOrder) : SampleOrder[i] = s

Repeat(v, n) == [i \in 1..n |-> v]

EmptyDict == [s \in {} |-> <<>>]

\* a row key that leaves the reference allele out
RowKeyPosOnly(d) == d.pos

\* row_key = f"{diff.pos}:{diff.ref}" (line 188)
RowKey(d) == d.pos \o <<":">> \o d.ref

\* haplotype.name.split(":")[0] (line 191)
Prot(name) == Split(name, <<":">>)[1]

\* the info of the latest diff that has one
MergeInfoLatest(prev_info, diff_info) ==
    IF diff_info # <<>> THEN diff_info ELSE prev_info

\* lines 194-198: keep the row's info when it is non-empty, else the diff's
MergeInfo(prev_info, diff_info) ==
    IF prev_info # <<>> THEN prev_info ELSE diff_info

\* an append without the membership test
MergeAltAlways(alt, current_alt) == Append(alt, current_alt)

\* lines 201-203: append current_alt to the row's alt list if it is not in it
MergeAlt(alt, current_alt) ==
    IF current_alt \in Range(alt) THEN alt ELSE Append(alt, current_alt)

\* line 207: the alt_index handed to handle_samples is len(alt), taken after
\* the append-if-absent step
AltIndex(alt, current_alt) == Len(alt)

(***************************************************************************)
(* handle_samples.  The lists of a samples dict are objects: heap maps an  *)
(* address to the list stored there, prev_samples and the returned dict    *)
(* map a sample id to an address.  Line 177 takes the row's own list       *)
(* object when it is non-empty and a new list otherwise; line 179 appends  *)
(* to that object, line 180 stores it in the copy of the dict.             *)
(***************************************************************************)
NewAddress(heap, s) == Len(SampleOrder) + Rank(s)

\* handle_samples without the loop over range(value): one append per sample
handle_samples_once(heap, prev_samples, hap, alt_index) ==
    LET samples_value(s) ==
            IF s \in DOMAIN prev_samples /\ heap[prev_samples[s]] # <<>>
            THEN prev_samples[s]
            ELSE NewAddress(heap, s)
        looped   == DOMAIN hap.samples
        appended == {samples_value(s) : s \in looped}
        before(a) == IF a \in DOMAIN heap THEN heap[a] ELSE <<>>
    IN  [ heap |->
            [a \in DOMAIN heap \cup appended |->
                IF a \in appended THEN Append(before(a), alt_index) ELSE heap[a]],
          samples |->
            [s \in DOMAIN prev_samples \cup looped |->
                IF s \in looped THEN samples_value(s) ELSE prev_samples[s]] ]

handle_samples(heap, prev_samples, hap, alt_index) ==
    LET samples_value(s) ==
            IF s \in DOMAIN prev_samples /\ heap[prev_samples[s]] # <<>>
            THEN prev_samples[s]
            ELSE NewAddress(heap, s)
        looped   == {s \in DOMAIN hap.samples : hap.samples[s] > 0}
        appended == {samples_value(s) : s \in looped}
        owner(a) == CHOOSE s \in looped : samples_value(s) = a
        before(a) == IF a \in DOMAIN heap THEN heap[a] ELSE <<>>
    IN  [ heap |->
            [a \in DOMAIN heap \cup appended |->
                IF a \in appended
                THEN before(a) \o Repeat(alt_index, hap.samples[owner(a)])
                ELSE heap[a]],
          samples |->
            [s \in DOMAIN prev_samples \cup looped |->
                IF s \in looped THEN samples_value(s) ELSE prev_samples[s]] ]

\* the list objects of a stored Item's samples dict
ObjectsOf(samples) ==
    [ heap    |-> [a \in {Rank(s) : s \in DOMAIN samples} |->
                      samples[CHOOSE s \in DOMAIN samples : Rank(s) = a]],
      samples |-> [s \in DOMAIN samples |-> Rank(s)] ]

\* Item(...): pydantic validation copies the dict and every list in it
ItemSamples(heap, samples) == [s \in DOMAIN samples |-> heap[samples[s]]]

\* vcf_rows.get(row_key): the position of the key in the dict, 0 if absent
KeyIndex(rows, key) ==
    IF \E i \in 1..Len(rows) : rows[i].key = key
    THEN CHOOSE i \in 1..Len(rows) : rows[i].key = key
    ELSE 0

\* vcf_rows[row_key] = item: in place for a known key, at the end for a new one
PutRow(rows, key, item) ==
    LET i == KeyIndex(rows, key)
    IN  IF i = 0 THEN Append(rows, [key |-> key, item |-> item])
        ELSE [rows EXCEPT ![i] = [key |-> key, item |-> item]]

\* the body of the inner loop of build_items (lines 188-216)
FoldDiff(rows, hap, d) ==
    LET row_key      == RowKey(d)
        i            == KeyIndex(rows, row_key)
        prev_info    == IF i = 0 THEN <<>> ELSE rows[i].item.info
        prev_alt     == IF i = 0 THEN <<>> ELSE rows[i].item.alt
        prev_objects == ObjectsOf(IF i = 0 THEN EmptyDict ELSE rows[i].item.samples)
        alt          == MergeAlt(prev_alt, d.alt)
        alt_index    == AltIndex(alt, d.alt)
        merged       == handle_samples(prev_objects.heap, prev_objects.samples,
                                       hap, alt_index)
        item         == [ prot    |-> Prot(hap.name),
                          pos     |-> d.pos,
                          ref     |-> d.ref,
                          alt     |-> alt,
                          info    |-> MergeInfo(prev_info, d.info),
                          samples |-> ItemSamples(merged.heap, merged.samples) ]
    IN  [ rows |-> PutRow(rows, row_key, item),
          call |-> [ made         |-> TRUE,
                     key          |-> row_key,
                     alt_index    |-> alt_index,
                     prev_heap    |-> prev_objects.heap,
                     prev_samples |-> prev_objects.samples,
                     heap         |-> merged.heap,
                     samples      |-> merged.samples ] ]

\* list(vcf_rows.values()) (line 217)
Values(rows) == [i \in 1..Len(rows) |-> rows[i].item]

(***************************************************************************)
(* append_samples_to_items (lines 220-233).                                *)
(***************************************************************************)
\* a padding that also cuts a longer sequence down to two entries
PadTruncate(value) == SubSeq(value \o <<0, 0>>, 1, 2)

\* line 230-231: value.extend([0] * (2 - len(value))) when len(value) < 2
Pad(value) == IF Len(value) < 2 THEN value \o Repeat(0, 2 - Len(value)) ELSE value

\* lines 225-228: the default [0, 0] for every id, overridden by the row's own
WithDefaults(samples, all_sample_ids) ==
    [s \in all_sample_ids \cup DOMAIN samples |->
        IF s \in DOMAIN samples THEN samples[s] ELSE <<0, 0>>]

append_samples_to_items(rows, all_sample_ids) ==
    [i \in 1..Len(rows) |->
        LET filled == WithDefaults(rows[i].samples, all_sample_ids)
        IN  [rows[i] EXCEPT !.samples = [s \in DOMAIN filled |-> Pad(filled[s])]]]

(***************************************************************************)
(* Inputs of build_items: haplotypes as get_formatted_haplotypes builds    *)
(* them, their diffs being results of format_diff.                         *)
(***************************************************************************)
BuildRefSeq == <<"M", "K">>

BuildNotations ==
    { <<"1", "K", ">", "T">>,
      <<"1", "K", ">", "C">>,
      <<"1", "A", ">", "T">>,
      <<"1", ":", "K", ">", "T">>,
      <<"1", "d", "e", "l", "{", "1", "}">>,
      <<"1", "d", "e", "l", "{", "K", "}">> }

DiffPool == { format_diff(Str(n), BuildRefSeq) : n \in BuildNotations }

HapPool ==
    { [name |-> <<"P", ":", "b">>, samples |-> ("s2" :> 2)],
      [name |-> <<"Q", ":", "c">>, samples |-> ("s1" :> 0 @@ "s2" :> 1)],
      [name |-> <<"Q", ":", "d">>, samples |-> ("s1" :> 1 @@ "s2" :> 1)] }

NoHaplotype == [name |-> <<>>, samples |-> EmptyDict]

NoCall == [made |-> FALSE]

(***************************************************************************)
(* Specification SpecParse: format_diff applied to one notation.           *)
(***************************************************************************)
ParseIdle ==
    /\ diff = NoneStr /\ ref_sequence = <<>> /\ formatted_diff = Pending

BuildIdle ==
    /\ bpc = "idle" /\ haplotype = NoHaplotype /\ vcf_rows = <<>>
    /\ sample_ids = {} /\ items = <<>> /\ folded = <<>> /\ last_call = NoCall

ConvertIdle ==
    /\ cpc = "idle" /\ vcf_headers = <<>> /\ file = <<>>
    /\ first_ids = {} /\ lines_read = 0

ParseInit ==
    /\ diff \in Notations
    /\ ref_sequence \in RefSeqs
    /\ formatted_diff = Pending
    /\ BuildIdle /\ ConvertIdle

FormatDiff ==
    /\ formatted_diff = Pending
    /\ formatted_diff' = format_diff(diff, ref_sequence)
    /\ UNCHANGED <<diff, ref_sequence, buildVars, convertVars>>

ParseNext == FormatDiff

SpecParse == ParseInit /\ [][ParseNext]_vars

(***************************************************************************)
(* Specification SpecBuild: build_items over a sequence of haplotypes, one *)
(* diff per step, then append_samples_to_items with the collected ids.     *)
(***************************************************************************)
BuildInit ==
    /\ bpc = "fold" /\ haplotype = NoHaplotype /\ vcf_rows = <<>>
    /\ sample_ids = {} /\ items = <<>> /\ folded = <<>> /\ last_call = NoCall
    /\ ParseIdle /\ ConvertIdle

\* line 186 (and lines 116-117 for the haplotype's sample ids)
NextHaplotype ==
    /\ bpc = "fold"
    /\ \E h \in HapPool :
         /\ haplotype' = h
         /\ sample_ids' = sample_ids \cup DOMAIN h.samples
    /\ UNCHANGED <<bpc, vcf_rows, items, folded, last_call, parseVars, convertVars>>

\* lines 187-216
FoldStep ==
    /\ bpc = "fold"
    /\ haplotype # NoHaplotype
    /\ Len(folded) < MaxFold
    /\ \E d \in DiffPool :
         LET r == FoldDiff(vcf_rows, haplotype, d)
         IN  /\ vcf_rows' = r.rows
             /\ last_call' = r.call
             /\ folded' = Append(folded, [samples |-> haplotype.samples, diff |-> d])
    /\ UNCHANGED <<bpc, haplotype, sample_ids, items, parseVars, convertVars>>

\* line 217
BuildReturn ==
    /\ bpc = "fold"
    /\ bpc' = "built"
    /\ items' = Values(vcf_rows)
    /\ UNCHANGED <<haplotype, vcf_rows, sample_ids, folded, last_call,
                   parseVars, convertVars>>

\* line 297
Finalize ==
    /\ bpc = "built"
    /\ bpc' = "final"
    /\ items' = append_samples_to_items(items, sample_ids)
    /\ UNCHANGED <<haplotype, vcf_rows, sample_ids, folded, last_call,
                   parseVars, convertVars>>

BuildNext == NextHaplotype \/ FoldStep \/ BuildReturn \/ Finalize

SpecBuild == BuildInit /\ [][BuildNext]_vars

(***************************************************************************)
(* get_formatted_haplotypes (lines 110-138) on one decoded line.  A raw    *)
(* haplotype is [name, samples, aligned_sequences, diffs], diffs being the *)
(* list of the "diff" values (a notation or null).                         *)
(***************************************************************************)
\* lines 119-126: the Diffs of the notations format_diff parses, in order;
\* an exception of format_diff leaves the loop
RECURSIVE FormatDiffs(_, _)
FormatDiffs(raw_diffs, refseq) ==
    IF Len(raw_diffs) = 0 THEN [kind |-> "ok", diffs |-> <<>>]
    ELSE
      LET formatted == format_diff(raw_diffs[1], refseq)
      IN  IF formatted.kind = "raise" THEN formatted
          ELSE
            LET rest == FormatDiffs(Tail(raw_diffs), refseq)
            IN  IF rest.kind = "raise" THEN rest
                ELSE IF formatted.kind = "None" THEN rest     \* continue
                ELSE [kind |-> "ok", diffs |-> <<formatted>> \o rest.diffs]

RECURSIVE get_formatted_haplotypes(_)
get_formatted_haplotypes(protein_haplotypes) ==
    IF Len(protein_haplotypes) = 0
    THEN [kind |-> "ok", haplotypes |-> <<>>, sample_ids |-> {}]
    ELSE
      LET raw   == protein_haplotypes[1]
          diffs == FormatDiffs(raw.diffs, raw.aligned_sequences[1])
      IN  IF diffs.kind = "raise" THEN diffs
          ELSE
            LET rest == get_formatted_haplotypes(Tail(protein_haplotypes))
            IN  IF rest.kind = "raise" THEN rest
                ELSE [ kind       |-> "ok",
                       haplotypes |-> << [name |-> raw.name, samples |-> raw.samples,
                                          diffs |-> diffs.diffs] >> \o rest.haplotypes,
                       sample_ids |-> DOMAIN raw.samples \cup rest.sample_ids ]

\* build_items (lines 184-217): the fold of every diff of every haplotype
RECURSIVE FoldHaplotype(_, _, _)
FoldHaplotype(rows, hap, diffs) ==
    IF Len(diffs) = 0 THEN rows
    ELSE FoldHaplotype(FoldDiff(rows, hap, diffs[1]).rows, hap, Tail(diffs))

RECURSIVE FoldHaplotypes(_, _)
FoldHaplotypes(rows, haps) ==
    IF Len(haps) = 0 THEN rows
    ELSE FoldHaplotypes(FoldHaplotype(rows, haps[1], haps[1].diffs), Tail(haps))

build_items(formatted_haplotypes) == Values(FoldHaplotypes(<<>>, formatted_haplotypes))

\* append_gene_to_items (lines 235-243), with the Gene the lookup returned
\* for the row's prot
GeneOf(prot) == [name |-> <<"g">> \o prot, id |-> <<"G">> \o prot]

append_gene_to_items(rows) ==
    [i \in 1..Len(rows) |->
        [ prot |-> rows[i].prot, pos |-> rows[i].pos, ref |-> rows[i].ref,
          alt |-> rows[i].alt, info |-> rows[i].info, samples |-> rows[i].samples,
          gene |-> GeneOf(rows[i].prot).name, gene_id |-> GeneOf(rows[i].prot).id ]]

(***************************************************************************)
(* generate_vcf_rows (lines 245-262).  A header that is not a key of       *)
(* HEADER_TO_KEY_MAP is a sample id (no sample id of the model is one of   *)
(* the seven header names); item.samples.get(header) is None for an id the *)
(* item does not have, and iterating it raises TypeError.                  *)
(***************************************************************************)
FixedHeaders == [i \in 1..Len(HEADER_TO_KEY_MAP) |-> HEADER_TO_KEY_MAP[i].header]

KeyOf(header) ==
    IF \E i \in 1..Len(HEADER_TO_KEY_MAP) : HEADER_TO_KEY_MAP[i].header = header
    THEN HEADER_TO_KEY_MAP[CHOOSE i \in 1..Len(HEADER_TO_KEY_MAP) :
                              HEADER_TO_KEY_MAP[i].header = header].key
    ELSE "none"

Cell(item, header) ==
    LET key == KeyOf(header)
    IN  CASE key = "gene"    -> item.gene
          [] key = "gene_id" -> item.gene_id
          [] key = "prot"    -> item.prot
          [] key = "pos"     -> item.pos
          [] key = "ref"     -> item.ref
          [] key = "alt"     -> Join(item.alt, ALT_SEPARATOR)
          [] key = "info"    -> item.info
          [] OTHER           ->
               LET sample == item.samples[header]
               IN  Join([i \in 1..Len(sample) |-> IntToStr(sample[i])], SAMPLE_SEPARATOR)

CellRaises(item, header) ==
    KeyOf(header) = "none" /\ header \notin DOMAIN item.samples

generate_vcf_rows(rows, headers) ==
    IF \E i \in 1..Len(rows) : \E h \in 1..Len(headers) : CellRaises(rows[i], headers[h])
    THEN Raise("TypeError")
    ELSE [ kind |-> "ok",
           rows |-> [i \in 1..Len(rows) |->
                       [h \in 1..Len(headers) |-> Cell(rows[i], headers[h])]] ]

\* a header written for every line
NeedsHeaderAlways(headers) == TRUE

\* line 300: the header is built and written when vcf_headers is still empty
NeedsHeader(headers) == headers = <<>>

\* list(sample_ids): the ids of the set, in an order the set decides
Orders(S) ==
    { f \in [1..Cardinality(S) -> S] : \A i, j \in 1..Cardinality(S) : f[i] = f[j] => i = j }

HeaderWrite(cells) == [kind |-> "header", cells |-> cells]
DataWrite(cells)   == [kind |-> "data",   cells |-> cells]

(***************************************************************************)
(* The body of the loop of convert_json_to_pcf (lines 292-304) for one     *)
(* line: the outcome, the new vcf_headers and the rows appended to the     *)
(* output file.  gene_ok: whether the gene lookup answered.                *)
(***************************************************************************)
ConvertFailed(headers, written) ==
    [ok |-> FALSE, headers |-> headers, written |-> written]

\* lines 302-304: the header row if it was just built, then the data rows
\* unless generate_vcf_rows raised
WriteRows(rows, header_rows, new_headers) ==
    IF rows.kind = "raise" THEN ConvertFailed(new_headers, header_rows)
    ELSE [ ok      |-> TRUE,
           headers |-> new_headers,
           written |-> header_rows \o
                       [i \in 1..Len(rows.rows) |-> DataWrite(rows.rows[i])] ]

\* lines 300-304
WriteItems(items_with_genes, write_header, new_headers) ==
    WriteRows(generate_vcf_rows(items_with_genes, new_headers),
              IF write_header THEN <<HeaderWrite(new_headers)>> ELSE <<>>,
              new_headers)

\* lines 294-304
ConvertHaplotypes(formatted, gene_ok, ids_order, headers) ==
    IF formatted.kind = "raise" THEN ConvertFailed(headers, <<>>)     \* line 293
    ELSE IF ~gene_ok THEN ConvertFailed(headers, <<>>)                \* line 295
    ELSE WriteItems(
           append_gene_to_items(
             append_samples_to_items(build_items(formatted.haplotypes),
                                     formatted.sample_ids)),
           NeedsHeader(headers),
           IF NeedsHeader(headers) THEN FixedHeaders \o ids_order ELSE headers)

ConvertLine(line, formatted, gene_ok, ids_order, headers) ==
    IF ~line.valid_json THEN ConvertFailed(headers, <<>>)             \* line 292
    ELSE ConvertHaplotypes(formatted, gene_ok, ids_order, headers)

(***************************************************************************)
(* Input lines of the conversion.                                          *)
(***************************************************************************)
RawHaplotype(name, samples, notations) ==
    [ name |-> name, samples |-> samples, aligned_sequences |-> <<BuildRefSeq>>,
      diffs |-> [i \in 1..Len(notations) |-> Str(notations[i])] ]

Line(haps) == [valid_json |-> TRUE, protein_haplotypes |-> haps]

LinePool ==
    { \* two haplotypes on one row, one notation that does not parse
      Line(<< RawHaplotype(<<"P", ":", "a">>, ("s1" :> 1), << <<"1", "K", ">", "T">> >>),
              RawHaplotype(<<"P", ":", "b">>, ("s2" :> 2),
                           << <<"1", "K", ">", "C">>, <<"K">> >>) >>),
      \* a sample id the first line does not have
      Line(<< RawHaplotype(<<"P", ":", "a">>, ("s1" :> 1 @@ "s3" :> 1),
                           << <<"1", "A", ">", "T">> >>) >>),
      \* one sample only
      Line(<< RawHaplotype(<<"Q", ":", "c">>, ("s1" :> 2),
                           << <<"1", "d", "e", "l", "{", "1", "}">> >>) >>),
      \* all three samples, two rows
      Line(<< RawHaplotype(<<"Q", ":", "d">>, ("s1" :> 1 @@ "s2" :> 1 @@ "s3" :> 0),
                           << <<"1", "K", ">", "T">>, <<"1", "A", ">", "T">> >>) >>),
      \* a notation format_diff raises on
      Line(<< RawHaplotype(<<"P", ":", "a">>, ("s1" :> 1),
                           << <<"1", "K", ">", "T", ">", "C">> >>) >>),
      \* no haplotype
      Line(<<>>),
      \* a line json.loads rejects
      [valid_json |-> FALSE, protein_haplotypes |-> <<>>] }

(***************************************************************************)
(* Specification SpecConvert: convert_json_to_pcf over the lines of a      *)
(* file, into an output file that starts empty.                            *)
(***************************************************************************)
ConvertInit ==
    /\ cpc = "reading" /\ vcf_headers = <<>> /\ file = <<>>
    /\ first_ids = {} /\ lines_read = 0
    /\ ParseIdle /\ BuildIdle

\* the sample ids of a line, list(sample_ids) putting them in some order
LineIds(formatted) ==
    IF formatted.kind = "raise" THEN {} ELSE formatted.sample_ids

\* the effect of one line on the state of the conversion
Converted(r, ids) ==
    /\ vcf_headers' = r.headers
    /\ file' = file \o r.written
    /\ cpc' = IF r.ok THEN "reading" ELSE "failed"
    /\ lines_read' = IF r.ok THEN lines_read + 1 ELSE lines_read
    /\ first_ids' = IF r.ok /\ lines_read = 0 THEN ids ELSE first_ids

ReadFormatted(line, formatted, gene_ok) ==
    \E ids_order \in Orders(LineIds(formatted)) :
        Converted(ConvertLine(line, formatted, gene_ok, ids_order, vcf_headers),
                  LineIds(formatted))

\* lines 291-304: one line of the input, processed to the end or to the
\* exception that aborts the conversion
ReadLine ==
    /\ cpc = "reading"
    /\ lines_read < MaxLines
    /\ \E line \in LinePool, gene_ok \in BOOLEAN :
         ReadFormatted(line, get_formatted_haplotypes(line.protein_haplotypes), gene_ok)
    /\ UNCHANGED <<parseVars, buildVars>>

\* the loop ends with the input
EndOfFile ==
    /\ cpc = "reading"
    /\ cpc' = "done"
    /\ UNCHANGED <<vcf_headers, file, first_ids, lines_read, parseVars, buildVars>>

ConvertNext == ReadLine \/ EndOfFile

SpecConvert == ConvertInit /\ [][ConvertNext]_vars

(***************************************************************************)
(* Properties of format_diff (SpecParse).                                  *)
(***************************************************************************)
Parsed == formatted_diff # Pending

\* the position and the remainder of a notation that starts with digits
NotationPos == SubSeq(diff.str, 1, LeadingDigits(diff.str))
NotationRemainder == SubSeq(diff.str, LeadingDigits(diff.str) + 1, Len(diff.str))
HasLeadingDigits == ~diff.isNone /\ diff.str # <<>> /\ LeadingDigits(diff.str) > 0

\* C2: format_diff never raises: whatever the notation (null, empty, any
\* text) and the reference sequence, its outcome is a Diff or none.
C2_FormatDiffNeverRaises ==
    Parsed => formatted_diff.kind \in {"Diff", "None"}

\* the Diff the documentation describes for a substitution: the remainder is
\* ref, then the marker, then alt
IsSubstitutionOf(r, pos, rem) ==
    /\ r.kind = "Diff"
    /\ r.pos = pos
    /\ rem = r.ref \o INSERT_OPERATOR \o r.alt
    /\ r.info = <<>>

\* the Diff the documentation describes for a deletion: rem is some text, the
\* marker, and a payload in braces
IsDeletionOf(r, pos, rem, refseq) ==
    /\ r.kind = "Diff"
    /\ r.pos = pos
    /\ ParseInt(pos) < Len(refseq)
    /\ r.ref = <<refseq[ParseInt(pos) + 1]>>
    /\ r.alt = DEL_STRING
    /\ \E i \in 1..Len(rem) :
         /\ SubSeq(rem, i, i + Len(DEL_OPERATOR) - 1) = DEL_OPERATOR
         /\ LET payload == StripBraces(SubSeq(rem, i + Len(DEL_OPERATOR), Len(rem)))
            IN  r.info = IF IsDigits(payload)
                         THEN InfoEndPrefix \o IntToStr(ParseInt(pos) + ParseInt(payload))
                         ELSE InfoSvidPrefix \o pos \o DEL_OPERATOR \o payload

\* C3: on a notation of leading digits P and a remainder, format_diff returns
\* the substitution Diff {P, text before the marker, text after it, ""} when
\* the remainder contains the substitution marker, else the deletion Diff
\* {P, referenceSequence[P], <DEL>, END=P+N or SVID=P del payload} when it
\* contains the deletion marker.
C3_FormatDiffResult ==
    (Parsed /\ HasLeadingDigits) =>
        IF Contains(NotationRemainder, INSERT_OPERATOR)
          THEN IsSubstitutionOf(formatted_diff, NotationPos, NotationRemainder)
        ELSE IF Contains(NotationRemainder, DEL_OPERATOR)
          THEN IsDeletionOf(formatted_diff, NotationPos, NotationRemainder, ref_sequence)
        ELSE TRUE

\* the same statement for the notations on which format_diff returns
C3_HoldsWhenReturning ==
    (Parsed /\ formatted_diff.kind # "raise") => C3_FormatDiffResult

\* the three documented examples
C3_Examples ==
    /\ (Parsed /\ diff = Str(Example10AT)) =>
          formatted_diff = Diff(<<"1", "0">>, <<"A">>, <<"T">>, <<>>)
    /\ (Parsed /\ diff = Str(Example5del3) /\ Len(ref_sequence) > 5) =>
          formatted_diff = Diff(<<"5">>, <<ref_sequence[6]>>, DEL_STRING,
                                InfoEndPrefix \o <<"8">>)
    /\ (Parsed /\ diff = Str(Example5delins) /\ Len(ref_sequence) > 5) =>
          formatted_diff = Diff(<<"5">>, <<ref_sequence[6]>>, DEL_STRING,
                                InfoSvidPrefix \o <<"5", "d", "e", "l", "i", "n", "s">>)

(***************************************************************************)
(* Properties of build_items and append_samples_to_items (SpecBuild).      *)
(***************************************************************************)
\* the 1-based position of x in a list that holds it
PositionOf(x, seq) ==
    CHOOSE i \in 1..Len(seq) : seq[i] = x /\ \A j \in 1..(i - 1) : seq[j] # x

NoDuplicates(seq) == \A i, j \in 1..Len(seq) : seq[i] = seq[j] => i = j

\* the elements of seq at their first occurrence, in order
RECURSIVE FirstOccurrencesUpTo(_, _)
FirstOccurrencesUpTo(seq, n) ==
    IF n = 0 THEN <<>>
    ELSE IF \E j \in 1..(n - 1) : seq[j] = seq[n]
         THEN FirstOccurrencesUpTo(seq, n - 1)
         ELSE Append(FirstOccurrencesUpTo(seq, n - 1), seq[n])

FirstOccurrences(seq) == FirstOccurrencesUpTo(seq, Len(seq))

\* the steps of the fold that went into the row of (pos, ref), in order
StepsOf(pos, ref) ==
    SelectSeq(folded, LAMBDA f : f.diff.pos = pos /\ f.diff.ref = ref)

AltsOf(pos, ref) ==
    LET steps == StepsOf(pos, ref) IN [i \in 1..Len(steps) |-> steps[i].diff.alt]

InfosOf(pos, ref) ==
    LET steps == StepsOf(pos, ref) IN [i \in 1..Len(steps) |-> steps[i].diff.info]

\* the copies of sample s a step contributes
CopiesIn(step, s) ==
    IF s \in DOMAIN step.samples /\ step.samples[s] > 0 THEN step.samples[s] ELSE 0

RECURSIVE SumCopies(_, _)
SumCopies(steps, s) ==
    IF Len(steps) = 0 THEN 0
    ELSE CopiesIn(steps[1], s) + SumCopies(Tail(steps), s)

\* the rows as they stand: the dict during the fold, the returned list after
CurrentRows == Values(vcf_rows)

LastStep == folded[Len(folded)]
LastRow  == vcf_rows[KeyIndex(vcf_rows, last_call.key)].item

\* C1: the genotype index appended for a folded diff is the 1-based position
\* of diff.alt in the row's alt list, also when the alt was already in the
\* list and is not its last element.
C1_GenotypeIndexIsAltPosition ==
    last_call.made =>
        \A s \in DOMAIN LastStep.samples :
            LET g == LastRow.samples[s]
                n == LastStep.samples[s]
            IN  n > 0 =>
                  \A i \in (Len(g) - n + 1)..Len(g) :
                      g[i] = PositionOf(LastStep.diff.alt, LastRow.alt)

\* what the code does instead: the index is the length of the alt list
C1_GenotypeIndexIsAltCount ==
    last_call.made =>
        \A s \in DOMAIN LastStep.samples :
            LET g == LastRow.samples[s]
                n == LastStep.samples[s]
            IN  n > 0 =>
                  \A i \in (Len(g) - n + 1)..Len(g) : g[i] = Len(LastRow.alt)

\* C4: the rows are exactly one Item for each distinct (pos, ref) among the
\* folded diffs: every folded diff has its alt in the one Item of its
\* (pos, ref), and there is no other Item.
C4_OneItemPerPosRef ==
    LET pairs == { <<folded[i].diff.pos, folded[i].diff.ref>> : i \in 1..Len(folded) }
        rows  == IF bpc = "fold" THEN CurrentRows ELSE items
    IN  /\ { <<rows[k].pos, rows[k].ref>> : k \in 1..Len(rows) } = pairs
        /\ Len(rows) = Cardinality(pairs)
        /\ \A i \in 1..Len(folded) :
             \A k \in 1..Len(rows) :
                 (rows[k].pos = folded[i].diff.pos /\ rows[k].ref = folded[i].diff.ref)
                     => folded[i].diff.alt \in Range(rows[k].alt)

C4_Witness ==
    /\ bpc = "built"
    /\ Len(items) = 2
    /\ Len(folded) = 3

\* C5: after every step of the fold a row's alt list has no duplicate and is
\* the alts folded into the row in the order of their first occurrence.
C5_AltFirstSeenOrder ==
    \A k \in 1..Len(CurrentRows) :
        LET row == CurrentRows[k]
        IN  /\ NoDuplicates(row.alt)
            /\ row.alt = FirstOccurrences(AltsOf(row.pos, row.ref))

C5_Witness ==
    \E k \in 1..Len(CurrentRows) :
        LET row  == CurrentRows[k]
            alts == AltsOf(row.pos, row.ref)
        IN  /\ Len(alts) = 3
            /\ alts[1] # alts[2]
            /\ alts[3] = alts[1]
            /\ Len(row.alt) = 2

\* C6: a row's info is the info of the first diff folded into the row whose
\* info is non-empty (empty while there is none); a later diff, with an empty
\* or another non-empty info, does not change it.
C6_InfoFirstNonEmpty ==
    \A k \in 1..Len(CurrentRows) :
        LET row   == CurrentRows[k]
            infos == InfosOf(row.pos, row.ref)
        IN  IF \A i \in 1..Len(infos) : infos[i] = <<>>
            THEN row.info = <<>>
            ELSE row.info =
                   infos[CHOOSE i \in 1..Len(infos) :
                            infos[i] # <<>> /\ \A j \in 1..(i - 1) : infos[j] = <<>>]

C6_Witness ==
    \E k \in 1..Len(CurrentRows) :
        LET row   == CurrentRows[k]
            infos == InfosOf(row.pos, row.ref)
        IN  /\ Len(infos) = 3
            /\ infos[1] = <<>>
            /\ infos[2] # <<>>
            /\ infos[3] # <<>>
            /\ infos[3] # infos[2]
            /\ row.info = infos[2]

\* C7: after append_samples_to_items with the sample ids S, every Item has a
\* genotype sequence for every id of S, each of length >= 2: [0, 0] for an id
\* the Item did not have, a shorter sequence right-padded with 0 to length
\* 2, a sequence of length >= 2 unchanged.
C7_Finalized ==
    bpc = "final" =>
        /\ Len(items) = Len(CurrentRows)
        /\ \A k \in 1..Len(items) :
             LET before == CurrentRows[k].samples
                 after  == items[k].samples
             IN  /\ DOMAIN after = sample_ids \cup DOMAIN before
                 /\ \A s \in DOMAIN after :
                      /\ Len(after[s]) >= 2
                      /\ s \notin DOMAIN before => after[s] = <<0, 0>>
                      /\ (s \in DOMAIN before /\ Len(before[s]) < 2) =>
                            /\ Len(after[s]) = 2
                            /\ \A i \in 1..2 :
                                 after[s][i] = IF i <= Len(before[s])
                                               THEN before[s][i] ELSE 0
                      /\ (s \in DOMAIN before /\ Len(before[s]) >= 2) =>
                            after[s] = before[s]

C7_Witness ==
    /\ bpc = "final"
    /\ \E k \in 1..Len(items) :
         LET before == CurrentRows[k].samples
         IN  /\ \E s \in sample_ids : s \notin DOMAIN before
             /\ \E s \in DOMAIN before : Len(before[s]) = 1
    /\ \E k \in 1..Len(items) :
         \E s \in DOMAIN CurrentRows[k].samples : Len(CurrentRows[k].samples[s]) > 2

\* C8: after any prefix of the fold, the length of a sample's genotype
\* sequence in a row is the sum of the sample's counts N > 0 over the diffs
\* folded into that row; a sample whose counts there are all 0 has no entry.
C8_LengthIsSumOfCopies ==
    \A k \in 1..Len(CurrentRows) :
        LET row == CurrentRows[k]
        IN  \A s \in SampleIds :
                LET total == SumCopies(StepsOf(row.pos, row.ref), s)
                IN  IF s \in DOMAIN row.samples
                    THEN Len(row.samples[s]) = total /\ total > 0
                    ELSE total = 0

C8_Witness ==
    \E k \in 1..Len(CurrentRows) :
        LET row   == CurrentRows[k]
            steps == StepsOf(row.pos, row.ref)
        IN  /\ \E i \in 1..Len(steps) :
                 "s1" \in DOMAIN steps[i].samples /\ steps[i].samples["s1"] = 0
            /\ "s1" \notin DOMAIN row.samples
            /\ "s2" \in DOMAIN row.samples
            /\ Len(row.samples["s2"]) = 3

\* C10: handle_samples copies the existing genotype sequence before it
\* appends: the call leaves every sequence object of the dict it was given
\* as it was, and no sequence it extended in the returned dict is an object
\* of the input.
C10_HandleSamplesCopies ==
    last_call.made =>
        /\ \A a \in DOMAIN last_call.prev_heap :
               last_call.heap[a] = last_call.prev_heap[a]
        /\ \A s \in DOMAIN LastStep.samples :
               LastStep.samples[s] > 0 =>
                   last_call.samples[s] \notin
                       {last_call.prev_samples[t] : t \in DOMAIN last_call.prev_samples}

(***************************************************************************)
(* Properties of convert_json_to_pcf (SpecConvert).                        *)
(***************************************************************************)
HeaderWrites == Cardinality({i \in 1..Len(file) : file[i].kind = "header"})

\* the header is the first row written, its sample columns are the ids of
\* the first processed line, and every data row has one cell per column
HeaderFirstAndRowsFit ==
    file # <<>> =>
        /\ file[1].kind = "header"
        /\ file[1].cells = vcf_headers
        /\ \A i \in 2..Len(file) : file[i].kind = "data"
        /\ SubSeq(file[1].cells, 1, Len(FixedHeaders)) = FixedHeaders
        /\ Len(file[1].cells) = Len(FixedHeaders) + Cardinality(first_ids)
        /\ { file[1].cells[j] : j \in (Len(FixedHeaders) + 1)..Len(file[1].cells) }
              = first_ids
        /\ \A i \in 2..Len(file) : Len(file[i].cells) = Len(file[1].cells)

\* C9 as stated: over any sequence of input lines the header row is written
\* exactly once and before every data row, with the sample ids of the first
\* processed line as its sample columns, and every data row has one cell per
\* header column.
C9_HeaderExactlyOnce ==
    cpc = "done" => (HeaderWrites = 1 /\ HeaderFirstAndRowsFit)

\* C9 as amended: the header row is written at most once, and exactly once
\* as soon as one line has been processed to the end (not at all for an input
\* without lines or when the first line fails); it is the first row of the
\* output, its sample columns are the sample ids of the first processed line
\* only, and every data row written has one cell per header column.
C9_HeaderOnceProcessed ==
    /\ HeaderWrites = (IF lines_read >= 1 THEN 1 ELSE 0)
    /\ (file # <<>>) = (lines_read >= 1)
    /\ HeaderFirstAndRowsFit

C9_Witness ==
    /\ lines_read = 2
    /\ first_ids = {"s1"}
    /\ Len(file) >= 4
    /\ HeaderWrites = 1
    /\ \E i \in 2..Len(file) : \E j \in 1..Len(file[i].cells) :
           file[i].cells[j] = <<"1", "|", "0">>

====
